---- MODULE Spec2Model ----
(***************************************************************************)
(* Maximum-flow engine of tshita/algorithm: the residual network shared by *)
(* FordFulkerson, EdmondsKarp, Dinic and CapacityScalingAlgorithm, their   *)
(* MaximumFlow loops, and the MaximumFlowWithLowerBound reduction.         *)
(*                                                                         *)
(* One instance of each class is built by the same sequence of             *)
(* add_arc/add_edge calls; a driver then calls MaximumFlow(s, t) on each   *)
(* instance in turn (FordFulkerson, EdmondsKarp, Dinic, CapacityScaling),  *)
(* and repeats the calls.  One action is one search of the class's loop    *)
(* (one Dfs, one Bfs, one LevelGraph, one AugmentingPath, one              *)
(* DoubleFlowAndMakeAuxiliaryNetwork).                                     *)
(*                                                                         *)
(* Adjacency lists are sequences (1-based); the rev field keeps the 0-based*)
(* index the code stores, so adj[e.dst][e.rev] is a[e.dst][e.rev + 1].     *)
(***************************************************************************)
EXTENDS Integers, Sequences, FiniteSets, TLC

\* ---- bounds of the model ----
NumV == 3          \* vertices of every instance (constructor argument n)
MaxCap == 2        \* largest capacity passed to add_arc / add_edge
MaxArcCalls == 3   \* add_arc calls made before MaximumFlow is called (add_edge makes two)
MaxFlowCalls == 2  \* MaximumFlow calls made on each instance
MaxLBArcs == 2     \* arcs added to a MaximumFlowWithLowerBound instance

\* ---- program constants ----
\* Weight of FordFulkerson, EdmondsKarp and Dinic is int (Dinic<int> in
\* maximum_flow_with_lower_bounds.cc); INF = numeric_limits<int>::max() / 10.
WeightMax == 2147483647
INF == WeightMax \div 10
\* Weight of CapacityScalingAlgorithm must be unsigned; the model instantiates
\* it with a 16-bit unsigned type, so arithmetic is modulo 2^16.
UWidth == 16
UMod == 2 ^ UWidth
UINF == (UMod - 1) \div 10

Algs == <<"FF", "EK", "Dinic", "CS">>
AlgSet == {Algs[i] : i \in 1..Len(Algs)}
Vertices == 0..(NumV - 1)

\* searches modelled inside one MaximumFlow call: more than any flow the
\* capacities of the built network allow
MaxSearches == MaxArcCalls * MaxCap + 1

Min(a, b) == IF a < b THEN a ELSE b
Max(a, b) == IF a < b THEN b ELSE a

VARIABLES
    n,        \* vertex count of the instances
    adj,      \* adj[alg][v]: adjacency list of vertex v in the instance of class alg
    arcs,     \* history: the add_arc calls made, with the position of the forward arc
    pc,       \* position of the driver / of the running MaximumFlow call
    cur,      \* class whose MaximumFlow is running (index into Algs)
    s, t,     \* arguments of the running MaximumFlow call
    flow,     \* local variable flow of the running call
    ret,      \* ret[alg]: the values returned by the calls made so far
    snap,     \* history: adj[alg] as it was when the previous call on alg returned
    calls,    \* number of the MaximumFlow call being made on each instance
    searches, \* searches made so far in the running call
    level,    \* Dinic::MaximumFlow: local vector level of the current phase
    iter,     \* Dinic::MaximumFlow: local vector iter of the current phase
    NUM_ITER, \* CapacityScalingAlgorithm::NUM_ITER
    k_th,     \* CapacityScalingAlgorithm::MaximumFlow: loop variable k_th
    sum_lb,   \* MaximumFlowWithLowerBound::sum_lb
    lbarcs,   \* history: the arcs (src, dst, lb, ub) MaximumFlowWithLowerBound::add_arc added
    lb_s, lb_t, \* arguments of MaximumFlowWithLowerBound::MaximumFlow
    fs,       \* MaximumFlowWithLowerBound::MaximumFlow: the locals f1, f2, ... set so far
    lbret     \* value returned by MaximumFlowWithLowerBound::MaximumFlow

flowvars == <<n, adj, arcs, pc, cur, s, t, flow, ret, snap, calls, searches,
              level, iter, NUM_ITER, k_th>>
lbvars == <<sum_lb, lbarcs, lb_s, lb_t, fs, lbret>>
vars == <<flowvars, lbvars>>

\* ------------------------------------------------------------------------
\* Residual network: FordFulkerson::add_arc / add_edge
\* ------------------------------------------------------------------------
FF_Edge(f, to, c, r) == [src |-> f, dst |-> to, rev |-> r, cap |-> c]

FF_add_arc(a, src, dst, cap) ==
    LET a1 == [a EXCEPT ![src] = Append(@, FF_Edge(src, dst, cap, Len(a[dst])))]
    IN  [a1 EXCEPT ![dst] = Append(@, FF_Edge(dst, src, 0, Len(a1[src]) - 1))]

FF_add_edge(a, src, dst, cap) ==
    FF_add_arc(FF_add_arc(a, src, dst, cap), dst, src, cap)


\* ------------------------------------------------------------------------
\* FordFulkerson::Dfs.  The result is the returned amount d together with
\* the adjacency lists and the visited set as the call leaves them (both
\* are passed by reference in the code).
\* ------------------------------------------------------------------------
RECURSIVE FF_Dfs(_, _, _, _, _), FF_DfsLoop(_, _, _, _, _, _)

FF_Dfs(a, v, f, tt, visited) ==
    IF v = tt THEN [d |-> f, adj |-> a, visited |-> visited]
    ELSE FF_DfsLoop(a, v, 1, f, tt, visited \cup {v})

\* FF_DfsLoop without e.cap -= d: the arc keeps its residual capacity
RECURSIVE FF_DfsLoopKeepCap(_, _, _, _, _, _)
FF_DfsLoopKeepCap(a, v, i, f, tt, visited) ==
    IF i > Len(a[v]) THEN [d |-> 0, adj |-> a, visited |-> visited]
    ELSE LET e == a[v][i] IN
         IF e.dst \notin visited /\ 0 < e.cap
         THEN LET r == FF_Dfs(a, e.dst, Min(f, e.cap), tt, visited) IN
              IF 0 < r.d
              THEN LET a2 == [r.adj EXCEPT ![e.dst][e.rev + 1].cap = @ + r.d]
                   IN  [d |-> r.d, adj |-> a2, visited |-> r.visited]
              ELSE FF_DfsLoopKeepCap(r.adj, v, i + 1, f, tt, r.visited)
         ELSE FF_DfsLoopKeepCap(a, v, i + 1, f, tt, visited)

\* the for loop of Dfs over adj[v], from the i-th arc on
FF_DfsLoop(a, v, i, f, tt, visited) ==
    IF i > Len(a[v]) THEN [d |-> 0, adj |-> a, visited |-> visited]
    ELSE LET e == a[v][i] IN
         IF e.dst \notin visited /\ 0 < e.cap
         THEN LET r == FF_Dfs(a, e.dst, Min(f, e.cap), tt, visited) IN
              IF 0 < r.d
              THEN LET a1 == [r.adj EXCEPT ![v][i].cap = @ - r.d]
                       a2 == [a1 EXCEPT ![e.dst][e.rev + 1].cap = @ + r.d]
                   IN  [d |-> r.d, adj |-> a2, visited |-> r.visited]
              ELSE FF_DfsLoop(r.adj, v, i + 1, f, tt, r.visited)
         ELSE FF_DfsLoop(a, v, i + 1, f, tt, visited)

\* ------------------------------------------------------------------------
\* EdmondsKarp: add_arc / add_edge and Bfs
\* ------------------------------------------------------------------------
EK_Edge(f, to, c, r) == [src |-> f, dst |-> to, rev |-> r, cap |-> c]

EK_add_arc(a, src, dst, cap) ==
    LET a1 == [a EXCEPT ![src] = Append(@, EK_Edge(src, dst, cap, Len(a[dst])))]
    IN  [a1 EXCEPT ![dst] = Append(@, EK_Edge(dst, src, 0, Len(a1[src]) - 1))]

EK_add_edge(a, src, dst, cap) ==
    EK_add_arc(EK_add_arc(a, src, dst, cap), dst, src, cap)

\* EK_Scan without the break at the sink: the scan goes on after reaching t
RECURSIVE EK_ScanNoBreak(_, _, _, _, _, _)
EK_ScanNoBreak(a, tt, v, i, prev, que) ==
    IF i > Len(a[v]) THEN [prev |-> prev, que |-> que, reached |-> FALSE]
    ELSE LET e == a[v][i] IN
         IF 0 >= e.cap THEN EK_ScanNoBreak(a, tt, v, i + 1, prev, que)
         ELSE IF e.dst = tt
              THEN EK_ScanNoBreak(a, tt, v, i + 1, [prev EXCEPT ![tt] = v], que)
              ELSE IF prev[e.dst] = -1
                   THEN EK_ScanNoBreak(a, tt, v, i + 1, [prev EXCEPT ![e.dst] = v],
                                       Append(que, e.dst))
                   ELSE EK_ScanNoBreak(a, tt, v, i + 1, prev, que)

RECURSIVE EK_Scan(_, _, _, _, _, _), EK_BfsLoop(_, _, _, _, _)

\* the for loop over adj[v] inside the breadth-first search, from arc i on
EK_Scan(a, tt, v, i, prev, que) ==
    IF i > Len(a[v]) THEN [prev |-> prev, que |-> que, reached |-> FALSE]
    ELSE LET e == a[v][i] IN
         IF 0 >= e.cap THEN EK_Scan(a, tt, v, i + 1, prev, que)
         ELSE IF e.dst = tt
              THEN [prev |-> [prev EXCEPT ![tt] = v], que |-> que, reached |-> TRUE]
              ELSE IF prev[e.dst] = -1
                   THEN EK_Scan(a, tt, v, i + 1, [prev EXCEPT ![e.dst] = v],
                                Append(que, e.dst))
                   ELSE EK_Scan(a, tt, v, i + 1, prev, que)

\* while (!reached && !que.empty()); the result is the vector prev
EK_BfsLoop(a, tt, prev, que, reached) ==
    IF reached \/ que = <<>> THEN prev
    ELSE LET r == EK_Scan(a, tt, Head(que), 1, prev, Tail(que))
         IN  EK_BfsLoop(a, tt, r.prev, r.que, r.reached)

\* first arc of adj[u] whose dst is v (0 when there is none)
RECURSIVE EK_FirstArc(_, _, _, _)
EK_FirstArc(a, u, v, i) ==
    IF i > Len(a[u]) THEN 0
    ELSE IF a[u][i].dst = v THEN i ELSE EK_FirstArc(a, u, v, i + 1)

\* first walk from t back to s: the increase f of the flow
RECURSIVE EK_Bottleneck(_, _, _, _, _)
EK_Bottleneck(a, prev, ss, v, f) ==
    IF v = ss THEN f
    ELSE LET i == EK_FirstArc(a, prev[v], v, 1) IN
         EK_Bottleneck(a, prev, ss, prev[v],
                       IF i = 0 THEN f ELSE Min(f, a[prev[v]][i].cap))

\* inner loop of the second walk: every arc of adj[u] whose dst is v
RECURSIVE EK_UpdateArcs(_, _, _, _, _)
EK_UpdateArcs(a, u, v, i, f) ==
    IF i > Len(a[u]) THEN a
    ELSE LET e == a[u][i] IN
         IF e.dst = v
         THEN LET a1 == [a EXCEPT ![u][i].cap = @ - f]
                  a2 == [a1 EXCEPT ![e.dst][e.rev + 1].cap = @ + f]
              IN  EK_UpdateArcs(a2, u, v, i + 1, f)
         ELSE EK_UpdateArcs(a, u, v, i + 1, f)

\* second walk from t back to s
RECURSIVE EK_Update(_, _, _, _, _)
EK_Update(a, prev, ss, v, f) ==
    IF v = ss THEN a
    ELSE EK_Update(EK_UpdateArcs(a, prev[v], v, 1, f), prev, ss, prev[v], f)

EK_Prev(a, ss, tt) ==
    EK_BfsLoop(a, tt, [[v \in DOMAIN a |-> -1] EXCEPT ![ss] = 0], <<ss>>, FALSE)

EK_Bfs(a, ss, tt) ==
    LET prev == EK_Prev(a, ss, tt) IN
    IF prev[tt] = -1 THEN [f |-> 0, adj |-> a]
    ELSE LET f == EK_Bottleneck(a, prev, ss, tt, INF)
         IN  [f |-> f, adj |-> EK_Update(a, prev, ss, tt, f)]

\* ------------------------------------------------------------------------
\* Dinic: add_arc / add_edge, LevelGraph and AugmentingPath
\* ------------------------------------------------------------------------
Dinic_Edge(f, to, c, r) == [src |-> f, dst |-> to, rev |-> r, weight |-> c]

Dinic_add_arc(a, src, dst, cap) ==
    LET a1 == [a EXCEPT ![src] = Append(@, Dinic_Edge(src, dst, cap, Len(a[dst])))]
    IN  [a1 EXCEPT ![dst] = Append(@, Dinic_Edge(dst, src, 0, Len(a1[src]) - 1))]

Dinic_add_edge(a, src, dst, cap) ==
    Dinic_add_arc(Dinic_add_arc(a, src, dst, cap), dst, src, cap)

RECURSIVE Dinic_LevelScan(_, _, _, _, _), Dinic_LevelLoop(_, _, _)

\* Dinic_LevelScan giving a newly reached vertex the level of v plus 2
RECURSIVE Dinic_LevelScanSkip(_, _, _, _, _)
Dinic_LevelScanSkip(a, v, i, lev, que) ==
    IF i > Len(a[v]) THEN [level |-> lev, que |-> que]
    ELSE LET e == a[v][i] IN
         IF 0 < e.weight /\ lev[e.dst] = -1
         THEN Dinic_LevelScanSkip(a, v, i + 1, [lev EXCEPT ![e.dst] = lev[v] + 2],
                                  Append(que, e.dst))
         ELSE Dinic_LevelScanSkip(a, v, i + 1, lev, que)

\* the for loop over adj[v] of LevelGraph, from arc i on
Dinic_LevelScan(a, v, i, lev, que) ==
    IF i > Len(a[v]) THEN [level |-> lev, que |-> que]
    ELSE LET e == a[v][i] IN
         IF 0 < e.weight /\ lev[e.dst] = -1
         THEN Dinic_LevelScan(a, v, i + 1, [lev EXCEPT ![e.dst] = lev[v] + 1],
                              Append(que, e.dst))
         ELSE Dinic_LevelScan(a, v, i + 1, lev, que)

Dinic_LevelLoop(a, lev, que) ==
    IF que = <<>> THEN lev
    ELSE LET r == Dinic_LevelScan(a, Head(que), 1, lev, Tail(que))
         IN  Dinic_LevelLoop(a, r.level, r.que)

Dinic_LevelGraph(a, ss) ==
    Dinic_LevelLoop(a, [[v \in DOMAIN a |-> -1] EXCEPT ![ss] = 0], <<ss>>)

RECURSIVE Dinic_AugmentingPath(_, _, _, _, _, _), Dinic_AugLoop(_, _, _, _, _, _)

Dinic_AugmentingPath(a, v, fl, tt, lev, it) ==
    IF v = tt THEN [d |-> fl, adj |-> a, iter |-> it]
    ELSE Dinic_AugLoop(a, v, fl, tt, lev, it)

\* Dinic_AugLoop with iter[v] advanced past the arc after a successful push too
RECURSIVE Dinic_AugLoopAdvance(_, _, _, _, _, _)
Dinic_AugLoopAdvance(a, v, fl, tt, lev, it) ==
    IF ~(it[v] < Len(a[v])) THEN [d |-> 0, adj |-> a, iter |-> it]
    ELSE LET e == a[v][it[v] + 1] IN
         IF 0 < e.weight /\ lev[v] < lev[e.dst]
         THEN LET r == Dinic_AugmentingPath(a, e.dst, Min(fl, e.weight), tt, lev, it) IN
              IF 0 < r.d
              THEN LET a1 == [r.adj EXCEPT ![v][r.iter[v] + 1].weight = @ - r.d]
                       a2 == [a1 EXCEPT ![e.dst][e.rev + 1].weight = @ + r.d]
                   IN  [d |-> r.d, adj |-> a2, iter |-> [r.iter EXCEPT ![v] = @ + 1]]
              ELSE Dinic_AugLoopAdvance(r.adj, v, fl, tt, lev, [r.iter EXCEPT ![v] = @ + 1])
         ELSE Dinic_AugLoopAdvance(a, v, fl, tt, lev, [it EXCEPT ![v] = @ + 1])

\* for ( ; iter[v] < adj[v].size(); ++iter[v])
Dinic_AugLoop(a, v, fl, tt, lev, it) ==
    IF ~(it[v] < Len(a[v])) THEN [d |-> 0, adj |-> a, iter |-> it]
    ELSE LET e == a[v][it[v] + 1] IN
         IF 0 < e.weight /\ lev[v] < lev[e.dst]
         THEN LET r == Dinic_AugmentingPath(a, e.dst, Min(fl, e.weight), tt, lev, it) IN
              IF 0 < r.d
              THEN LET a1 == [r.adj EXCEPT ![v][r.iter[v] + 1].weight = @ - r.d]
                       a2 == [a1 EXCEPT ![e.dst][e.rev + 1].weight = @ + r.d]
                   IN  [d |-> r.d, adj |-> a2, iter |-> r.iter]
              ELSE Dinic_AugLoop(r.adj, v, fl, tt, lev, [r.iter EXCEPT ![v] = @ + 1])
         ELSE Dinic_AugLoop(a, v, fl, tt, lev, [it EXCEPT ![v] = @ + 1])

\* ------------------------------------------------------------------------
\* CapacityScalingAlgorithm: add_arc / add_edge, DoubleFlowAndMakeAuxiliaryNetwork, Dfs
\* ------------------------------------------------------------------------
\* conversion of an int argument to the unsigned Weight
ToWeight(c) == c % UMod

CS_Edge(f, to, c, r, is_org) ==
    [src |-> f, dst |-> to, rev |-> r, cap |-> c, cap_aux |-> 0, is_original |-> is_org]

CS_add_arc(a, src, dst, cap) ==
    LET a1 == [a EXCEPT ![src] = Append(@, CS_Edge(src, dst, cap, Len(a[dst]), TRUE))]
    IN  [a1 EXCEPT ![dst] = Append(@, CS_Edge(dst, src, cap, Len(a1[src]) - 1, FALSE))]

CS_add_edge(a, src, dst, cap) ==
    CS_add_arc(CS_add_arc(a, src, dst, cap), dst, src, cap)

\* the largest cap among the original arcs (first loop of MaximumFlow)
RECURSIVE CS_MaxCapFrom(_, _, _, _)
CS_MaxCapFrom(a, v, i, m) ==
    IF v \notin DOMAIN a THEN m
    ELSE IF i > Len(a[v]) THEN CS_MaxCapFrom(a, v + 1, 1, m)
    ELSE CS_MaxCapFrom(a, v, i + 1,
                       IF a[v][i].is_original THEN Max(m, a[v][i].cap) ELSE m)

CS_MaxCap(a) == CS_MaxCapFrom(a, 0, 1, 0)

\* std::floor(std::log2(x) + 1) for x > 0: the number of bits of x
RECURSIVE FloorLog2Plus1(_)
FloorLog2Plus1(x) == IF x <= 1 THEN 1 ELSE 1 + FloorLog2Plus1(x \div 2)

\* x >> sh with the shift count off by one
ShiftRightOneMore(x, sh) == x \div (2 ^ (sh + 1))

\* x >> sh
ShiftRight(x, sh) == x \div (2 ^ sh)

RECURSIVE CS_DoubleFrom(_, _, _, _, _)
CS_DoubleFrom(a, v, i, numIter, k) ==
    IF v \notin DOMAIN a THEN a
    ELSE IF i > Len(a[v]) THEN CS_DoubleFrom(a, v + 1, 1, numIter, k)
    ELSE LET e == a[v][i] IN
         IF ~e.is_original
         THEN LET cap_aux == ShiftRight(e.cap, numIter - k)
                  doubled == (e.cap_aux * 2) % UMod
                  a1 == [a EXCEPT ![v][i].cap_aux = doubled]
                  a2 == [a1 EXCEPT ![e.dst][e.rev + 1].cap_aux = (cap_aux - doubled) % UMod]
              IN  CS_DoubleFrom(a2, v, i + 1, numIter, k)
         ELSE CS_DoubleFrom(a, v, i + 1, numIter, k)

CS_DoubleFlowAndMakeAuxiliaryNetwork(a, numIter, k) == CS_DoubleFrom(a, 0, 1, numIter, k)

RECURSIVE CS_Dfs(_, _, _, _, _), CS_DfsLoop(_, _, _, _, _, _)

CS_Dfs(a, v, f, tt, visited) ==
    IF v = tt THEN [d |-> f, adj |-> a, visited |-> visited]
    ELSE CS_DfsLoop(a, v, 1, f, tt, visited \cup {v})

\* CS_DfsLoop crediting the paired arc with twice the amount pushed
RECURSIVE CS_DfsLoopDoubleCredit(_, _, _, _, _, _)
CS_DfsLoopDoubleCredit(a, v, i, f, tt, visited) ==
    IF i > Len(a[v]) THEN [d |-> 0, adj |-> a, visited |-> visited]
    ELSE LET e == a[v][i] IN
         IF e.dst \notin visited /\ 0 < e.cap_aux
         THEN LET r == CS_Dfs(a, e.dst, Min(f, e.cap_aux), tt, visited) IN
              IF 0 < r.d
              THEN LET a1 == [r.adj EXCEPT ![v][i].cap_aux = (@ - r.d) % UMod]
                       a2 == [a1 EXCEPT ![e.dst][e.rev + 1].cap_aux = (@ + 2 * r.d) % UMod]
                   IN  [d |-> r.d, adj |-> a2, visited |-> r.visited]
              ELSE CS_DfsLoopDoubleCredit(r.adj, v, i + 1, f, tt, r.visited)
         ELSE CS_DfsLoopDoubleCredit(a, v, i + 1, f, tt, visited)

CS_DfsLoop(a, v, i, f, tt, visited) ==
    IF i > Len(a[v]) THEN [d |-> 0, adj |-> a, visited |-> visited]
    ELSE LET e == a[v][i] IN
         IF e.dst \notin visited /\ 0 < e.cap_aux
         THEN LET r == CS_Dfs(a, e.dst, Min(f, e.cap_aux), tt, visited) IN
              IF 0 < r.d
              THEN LET a1 == [r.adj EXCEPT ![v][i].cap_aux = (@ - r.d) % UMod]
                       a2 == [a1 EXCEPT ![e.dst][e.rev + 1].cap_aux = (@ + r.d) % UMod]
                   IN  [d |-> r.d, adj |-> a2, visited |-> r.visited]
              ELSE CS_DfsLoop(r.adj, v, i + 1, f, tt, r.visited)
         ELSE CS_DfsLoop(a, v, i + 1, f, tt, visited)

\* ------------------------------------------------------------------------
\* Initial state: the four instances just constructed, no arc yet.
\* ------------------------------------------------------------------------
EmptyAdj(nn) == [v \in 0..(nn - 1) |-> <<>>]
NoVector == [v \in {} |-> 0]

Init ==
    /\ n = NumV
    /\ adj = [alg \in AlgSet |-> EmptyAdj(NumV)]
    /\ arcs = <<>>
    /\ pc = "build"
    /\ cur = 1
    /\ s = 0
    /\ t = 0
    /\ flow = 0
    /\ ret = [alg \in AlgSet |-> <<>>]
    /\ snap = [alg \in AlgSet |-> EmptyAdj(NumV)]
    /\ calls = 0
    /\ searches = 0
    /\ level = NoVector
    /\ iter = NoVector
    /\ NUM_ITER = 0
    /\ k_th = 0
    /\ sum_lb = 0
    /\ lbarcs = <<>>
    /\ lb_s = 0
    /\ lb_t = 0
    /\ fs = <<>>
    /\ lbret = 0

\* ------------------------------------------------------------------------
\* Construction: the same add_arc / add_edge call on every instance.
\* ------------------------------------------------------------------------
Caps == 0..MaxCap
AnyCaps == (0 - MaxCap)..MaxCap

\* history record of one add_arc call: pos is the 1-based position of the
\* forward arc in adj[src], rpos that of the reverse arc in adj[dst]
ArcRec(a, src, dst, cap) ==
    [src |-> src, dst |-> dst, cap |-> cap, pos |-> Len(a[src]) + 1,
     rpos |-> IF src = dst THEN Len(a[src]) + 2 ELSE Len(a[dst]) + 1]

AddArcAll(x, u, v, c) ==
    [alg \in AlgSet |->
        CASE alg = "FF" -> FF_add_arc(x[alg], u, v, c)
          [] alg = "EK" -> EK_add_arc(x[alg], u, v, c)
          [] alg = "Dinic" -> Dinic_add_arc(x[alg], u, v, c)
          [] alg = "CS" -> CS_add_arc(x[alg], u, v, ToWeight(c))]

AddEdgeAll(x, u, v, c) ==
    [alg \in AlgSet |->
        CASE alg = "FF" -> FF_add_edge(x[alg], u, v, c)
          [] alg = "EK" -> EK_add_edge(x[alg], u, v, c)
          [] alg = "Dinic" -> Dinic_add_edge(x[alg], u, v, c)
          [] alg = "CS" -> CS_add_edge(x[alg], u, v, ToWeight(c))]

AddArc(u, v, c) ==
    /\ pc = "build"
    /\ Len(arcs) < MaxArcCalls
    /\ adj' = AddArcAll(adj, u, v, c)
    /\ arcs' = Append(arcs, ArcRec(adj["FF"], u, v, c))
    /\ UNCHANGED <<n, pc, cur, s, t, flow, ret, snap, calls, searches,
                   level, iter, NUM_ITER, k_th, lbvars>>

\* add_edge makes two add_arc calls
AddEdge(u, v, c) ==
    /\ pc = "build"
    /\ Len(arcs) + 1 < MaxArcCalls
    /\ adj' = AddEdgeAll(adj, u, v, c)
    /\ arcs' = Append(Append(arcs, ArcRec(adj["FF"], u, v, c)),
                      ArcRec(FF_add_arc(adj["FF"], u, v, c), v, u, c))
    /\ UNCHANGED <<n, pc, cur, s, t, flow, ret, snap, calls, searches,
                   level, iter, NUM_ITER, k_th, lbvars>>

\* ------------------------------------------------------------------------
\* The driver: MaximumFlow(s, t) on each instance in turn, MaxFlowCalls times.
\* ------------------------------------------------------------------------
EntryPc(alg) ==
    CASE alg = "FF" -> "search"
      [] alg = "EK" -> "search"
      [] alg = "Dinic" -> "level"
      [] alg = "CS" -> "cs_start"

\* The driver calls MaximumFlow(s, t) on the instances in the order of Algs.
\* The source is vertex 0 and the sink the last vertex, as in the main
\* functions (MaximumFlow(0, n - 1)); the classes treat all vertex numbers
\* alike, so every (network, s, t) with s # t is a renumbering of such a case.
Source == 0
Sink == NumV - 1

CallMaximumFlow(ss, tt) ==
    /\ pc = "build"
    /\ ss # tt
    /\ pc' = EntryPc(Algs[1])
    /\ cur' = 1
    /\ s' = ss
    /\ t' = tt
    /\ flow' = 0
    /\ calls' = 1
    /\ searches' = 0
    /\ snap' = adj
    /\ UNCHANGED <<n, adj, arcs, ret, level, iter, NUM_ITER, k_th, lbvars>>

\* A call MaximumFlow(v, v), made on the instance of class Algs[first]
CallMaximumFlowSame(v, first) ==
    /\ pc = "build"
    /\ pc' = EntryPc(Algs[first])
    /\ cur' = first
    /\ s' = v
    /\ t' = v
    /\ flow' = 0
    /\ calls' = 1
    /\ searches' = 0
    /\ snap' = adj
    /\ UNCHANGED <<n, adj, arcs, ret, level, iter, NUM_ITER, k_th, lbvars>>

\* return flow; the driver goes on to the next call
Return ==
    /\ pc = "ret"
    /\ ret' = [ret EXCEPT ![Algs[cur]] = Append(@, flow)]
    /\ snap' = [snap EXCEPT ![Algs[cur]] = adj[Algs[cur]]]
    /\ flow' = 0
    /\ searches' = 0
    /\ level' = NoVector
    /\ iter' = NoVector
    /\ k_th' = 0
    /\ IF cur < Len(Algs)
       THEN /\ cur' = cur + 1
            /\ pc' = EntryPc(Algs[cur + 1])
            /\ calls' = calls
       ELSE IF calls < MaxFlowCalls
            THEN /\ cur' = 1
                 /\ pc' = EntryPc(Algs[1])
                 /\ calls' = calls + 1
            ELSE /\ cur' = cur
                 /\ pc' = "done"
                 /\ calls' = calls
    /\ UNCHANGED <<n, adj, arcs, s, t, NUM_ITER, lbvars>>

\* one iteration of the while loop of FordFulkerson::MaximumFlow
FF_Search ==
    /\ pc = "search"
    /\ Algs[cur] = "FF"
    /\ searches < MaxSearches
    /\ LET r == FF_Dfs(adj["FF"], s, INF, t, {}) IN
       /\ adj' = [adj EXCEPT !["FF"] = r.adj]
       /\ IF r.d <= 0
          THEN /\ pc' = "ret"
               /\ UNCHANGED <<flow, searches>>
          ELSE /\ flow <= WeightMax - r.d
               /\ flow' = flow + r.d
               /\ searches' = searches + 1
               /\ pc' = "search"
    /\ UNCHANGED <<n, arcs, cur, s, t, ret, snap, calls, level, iter, NUM_ITER, k_th, lbvars>>

\* one iteration of the while loop of EdmondsKarp::MaximumFlow
EK_Search ==
    /\ pc = "search"
    /\ Algs[cur] = "EK"
    /\ searches < MaxSearches
    /\ LET r == EK_Bfs(adj["EK"], s, t) IN
       /\ adj' = [adj EXCEPT !["EK"] = r.adj]
       /\ IF r.f <= 0
          THEN /\ pc' = "ret"
               /\ UNCHANGED <<flow, searches>>
          ELSE /\ flow <= WeightMax - r.f
               /\ flow' = flow + r.f
               /\ searches' = searches + 1
               /\ pc' = "search"
    /\ UNCHANGED <<n, arcs, cur, s, t, ret, snap, calls, level, iter, NUM_ITER, k_th, lbvars>>

\* Dinic_Phase with iter created once per call instead of once per phase
Dinic_PhaseKeepIter ==
    /\ pc = "level"
    /\ Algs[cur] = "Dinic"
    /\ LET lev == Dinic_LevelGraph(adj["Dinic"], s) IN
       IF lev[t] = -1
       THEN /\ pc' = "ret"
            /\ level' = lev
            /\ UNCHANGED iter
       ELSE /\ pc' = "augment"
            /\ level' = lev
            /\ iter' = IF iter = NoVector THEN [v \in DOMAIN adj["Dinic"] |-> 0] ELSE iter
    /\ UNCHANGED <<n, adj, arcs, cur, s, t, flow, ret, snap, calls, searches, NUM_ITER, k_th, lbvars>>

\* Dinic::MaximumFlow, head of the outer loop: LevelGraph and the test of level[t]
Dinic_Phase ==
    /\ pc = "level"
    /\ Algs[cur] = "Dinic"
    /\ LET lev == Dinic_LevelGraph(adj["Dinic"], s) IN
       IF lev[t] = -1
       THEN /\ pc' = "ret"
            /\ level' = lev
            /\ UNCHANGED iter
       ELSE /\ pc' = "augment"
            /\ level' = lev
            /\ iter' = [v \in DOMAIN adj["Dinic"] |-> 0]
    /\ UNCHANGED <<n, adj, arcs, cur, s, t, flow, ret, snap, calls, searches, NUM_ITER, k_th, lbvars>>

\* Dinic_Augment with the outer loop left after its first phase
Dinic_AugmentOnePhase ==
    /\ pc = "augment"
    /\ Algs[cur] = "Dinic"
    /\ searches < MaxSearches
    /\ LET r == Dinic_AugmentingPath(adj["Dinic"], s, INF, t, level, iter) IN
       /\ adj' = [adj EXCEPT !["Dinic"] = r.adj]
       /\ iter' = r.iter
       /\ IF r.d > 0
          THEN /\ flow <= WeightMax - r.d
               /\ flow' = flow + r.d
               /\ searches' = searches + 1
               /\ pc' = "augment"
          ELSE /\ pc' = "ret"
               /\ UNCHANGED <<flow, searches>>
    /\ UNCHANGED <<n, arcs, cur, s, t, ret, snap, calls, level, NUM_ITER, k_th, lbvars>>

\* Dinic_Augment with the inner loop left after one augmenting path
Dinic_AugmentOnePath ==
    /\ pc = "augment"
    /\ Algs[cur] = "Dinic"
    /\ searches < MaxSearches
    /\ LET r == Dinic_AugmentingPath(adj["Dinic"], s, INF, t, level, iter) IN
       /\ adj' = [adj EXCEPT !["Dinic"] = r.adj]
       /\ iter' = r.iter
       /\ pc' = "level"
       /\ IF r.d > 0
          THEN /\ flow <= WeightMax - r.d
               /\ flow' = flow + r.d
               /\ searches' = searches + 1
          ELSE UNCHANGED <<flow, searches>>
    /\ UNCHANGED <<n, arcs, cur, s, t, ret, snap, calls, level, NUM_ITER, k_th, lbvars>>

\* Dinic::MaximumFlow, one iteration of the inner loop: one AugmentingPath call
Dinic_Augment ==
    /\ pc = "augment"
    /\ Algs[cur] = "Dinic"
    /\ searches < MaxSearches
    /\ LET r == Dinic_AugmentingPath(adj["Dinic"], s, INF, t, level, iter) IN
       /\ adj' = [adj EXCEPT !["Dinic"] = r.adj]
       /\ iter' = r.iter
       /\ IF r.d > 0
          THEN /\ flow <= WeightMax - r.d
               /\ flow' = flow + r.d
               /\ searches' = searches + 1
               /\ pc' = "augment"
          ELSE /\ pc' = "level"
               /\ UNCHANGED <<flow, searches>>
    /\ UNCHANGED <<n, arcs, cur, s, t, ret, snap, calls, level, NUM_ITER, k_th, lbvars>>

\* CapacityScalingAlgorithm::MaximumFlow up to the for loop: NUM_ITER.
\* Converting floor(log2(0) + 1) = -infinity to unsigned is undefined: any count.
UndefinedIters == 0..2

CS_Start ==
    /\ pc = "cs_start"
    /\ Algs[cur] = "CS"
    /\ LET max_cap == CS_MaxCap(adj["CS"]) IN
       IF max_cap = 0
       THEN NUM_ITER' \in UndefinedIters
       ELSE NUM_ITER' = FloorLog2Plus1(max_cap)
    /\ k_th' = 1
    /\ flow' = 0
    /\ pc' = "cs_iter"
    /\ UNCHANGED <<n, adj, arcs, cur, s, t, ret, snap, calls, searches, level, iter, lbvars>>

\* head of one iteration of the for loop: DoubleFlowAndMakeAuxiliaryNetwork, flow *= 2
CS_Iterate ==
    /\ pc = "cs_iter"
    /\ Algs[cur] = "CS"
    /\ IF k_th <= NUM_ITER
       THEN /\ adj' = [adj EXCEPT !["CS"] =
                          CS_DoubleFlowAndMakeAuxiliaryNetwork(@, NUM_ITER, k_th)]
            /\ flow' = (flow * 2) % UMod
            /\ pc' = "cs_dfs"
       ELSE /\ pc' = "ret"
            /\ UNCHANGED <<adj, flow>>
    /\ UNCHANGED <<n, arcs, cur, s, t, ret, snap, calls, searches, level, iter,
                   NUM_ITER, k_th, lbvars>>

\* one iteration of the while loop inside the for loop: one Dfs
CS_Search ==
    /\ pc = "cs_dfs"
    /\ Algs[cur] = "CS"
    /\ searches < MaxSearches
    /\ LET r == CS_Dfs(adj["CS"], s, UINF, t, {}) IN
       /\ adj' = [adj EXCEPT !["CS"] = r.adj]
       /\ IF r.d <= 0
          THEN /\ k_th' = k_th + 1
               /\ pc' = "cs_iter"
               /\ UNCHANGED <<flow, searches>>
          ELSE /\ flow' = (flow + r.d) % UMod
               /\ searches' = searches + 1
               /\ pc' = "cs_dfs"
               /\ UNCHANGED k_th
    /\ UNCHANGED <<n, arcs, cur, s, t, ret, snap, calls, level, iter, NUM_ITER, lbvars>>

Next ==
    \/ \E u \in Vertices : \E v \in Vertices \ {u} : \E c \in Caps : AddArc(u, v, c)
    \/ \E u \in Vertices : \E v \in Vertices \ {u} : \E c \in Caps : AddEdge(u, v, c)
    \/ CallMaximumFlow(Source, Sink)
    \/ FF_Search
    \/ EK_Search
    \/ Dinic_Phase
    \/ Dinic_Augment
    \/ CS_Start
    \/ CS_Iterate
    \/ CS_Search
    \/ Return

Spec == Init /\ [][Next]_vars

\* The same instances when the driver calls MaximumFlow(v, v)
NextSame ==
    \/ \E u \in Vertices : \E v \in Vertices \ {u} : \E c \in Caps : AddArc(u, v, c)
    \/ \E u \in Vertices : \E v \in Vertices \ {u} : \E c \in Caps : AddEdge(u, v, c)
    \/ \E first \in 1..Len(Algs) : CallMaximumFlowSame(Source, first)
    \/ FF_Search
    \/ EK_Search
    \/ Dinic_Phase
    \/ Dinic_Augment
    \/ CS_Start
    \/ CS_Iterate
    \/ CS_Search
    \/ Return

SpecSame == Init /\ [][NextSame]_vars

\* The driver of Spec with the while loop of FordFulkerson::MaximumFlow
\* running on: a call that has been made goes on to its next iteration.
SpecFF == Init /\ [][Next]_vars /\ WF_vars(FF_Search)

\* The construction interface alone: any vertices (u = v included) and any
\* int capacity, negative ones included
NextBuild ==
    \/ \E u \in Vertices, v \in Vertices, c \in AnyCaps : AddArc(u, v, c)
    \/ \E u \in Vertices, v \in Vertices, c \in AnyCaps : AddEdge(u, v, c)

SpecBuild == Init /\ [][NextBuild]_vars

\* ------------------------------------------------------------------------
\* MaximumFlowWithLowerBound<Dinic<int>>: the instance algo has n + 2
\* vertices, SuperSource = n and SuperSink = n + 1.
\* ------------------------------------------------------------------------
SuperSource == NumV
SuperSink == NumV + 1

InitLB ==
    /\ n = NumV + 2
    /\ adj = [alg \in AlgSet |-> EmptyAdj(NumV + 2)]
    /\ arcs = <<>>
    /\ pc = "build"
    /\ cur = 3
    /\ s = 0
    /\ t = 0
    /\ flow = 0
    /\ ret = [alg \in AlgSet |-> <<>>]
    /\ snap = [alg \in AlgSet |-> EmptyAdj(NumV + 2)]
    /\ calls = 1
    /\ searches = 0
    /\ level = NoVector
    /\ iter = NoVector
    /\ NUM_ITER = 0
    /\ k_th = 0
    /\ sum_lb = 0
    /\ lbarcs = <<>>
    /\ lb_s = 0
    /\ lb_t = 0
    /\ fs = <<>>
    /\ lbret = 0

\* LB_algo_add_arcs with the main arc given the capacity ub instead of ub - lb
LB_algo_add_arcs_ub(a, src, dst, lb, ub) ==
    Dinic_add_arc(Dinic_add_arc(Dinic_add_arc(a, src, dst, ub),
                                SuperSource, dst, lb),
                  src, SuperSink, lb)

\* the three algo.add_arc calls of MaximumFlowWithLowerBound::add_arc
LB_algo_add_arcs(a, src, dst, lb, ub) ==
    Dinic_add_arc(Dinic_add_arc(Dinic_add_arc(a, src, dst, ub - lb),
                                SuperSource, dst, lb),
                  src, SuperSink, lb)

\* MaximumFlowWithLowerBound::add_arc; a failed assert ends the process
LB_add_arc(src, dst, lb, ub) ==
    /\ pc = "build"
    /\ Len(lbarcs) < MaxLBArcs
    /\ IF ~(0 <= lb /\ lb <= ub)
       THEN /\ pc' = "abort"
            /\ UNCHANGED <<adj, arcs, sum_lb, lbarcs>>
       ELSE IF src = dst \/ ub = 0
            THEN UNCHANGED <<pc, adj, arcs, sum_lb, lbarcs>>
            ELSE /\ adj' = [adj EXCEPT !["Dinic"] = LB_algo_add_arcs(@, src, dst, lb, ub)]
                 /\ arcs' = arcs \o
                      << ArcRec(adj["Dinic"], src, dst, ub - lb),
                         ArcRec(Dinic_add_arc(adj["Dinic"], src, dst, ub - lb),
                                SuperSource, dst, lb),
                         ArcRec(Dinic_add_arc(Dinic_add_arc(adj["Dinic"], src, dst, ub - lb),
                                              SuperSource, dst, lb),
                                src, SuperSink, lb) >>
                 /\ sum_lb' = sum_lb + lb
                 /\ lbarcs' = Append(lbarcs, [src |-> src, dst |-> dst, lb |-> lb, ub |-> ub])
                 /\ UNCHANGED pc
    /\ UNCHANGED <<n, cur, s, t, flow, ret, snap, calls, searches, level, iter,
                   NUM_ITER, k_th, lb_s, lb_t, fs, lbret>>

\* algo.MaximumFlow(ss, tt) is entered
LB_Enter(ss, tt) ==
    /\ pc' = EntryPc("Dinic")
    /\ s' = ss
    /\ t' = tt
    /\ flow' = 0
    /\ searches' = 0
    /\ level' = NoVector
    /\ iter' = NoVector

\* MaximumFlow(s, t) is called: f1 = algo.MaximumFlow(SuperSource, SuperSink) starts
LB_MaximumFlow(ss, tt) ==
    /\ pc = "build"
    /\ ss # tt
    /\ lb_s' = ss
    /\ lb_t' = tt
    /\ fs' = <<>>
    /\ LB_Enter(SuperSource, SuperSink)
    /\ UNCHANGED <<n, adj, arcs, cur, ret, snap, calls, NUM_ITER, k_th, sum_lb, lbarcs, lbret>>

\* LB_AfterF1 with a test of f1 alone: if (f1 != sum_lb) return -1
LB_AfterF1TestF1 ==
    /\ pc = "ret"
    /\ Len(fs) = 0
    /\ fs' = Append(fs, flow)
    /\ IF flow # sum_lb
       THEN /\ lbret' = -1
            /\ pc' = "done"
            /\ UNCHANGED <<s, t, flow, searches, level, iter>>
       ELSE /\ LB_Enter(lb_s, SuperSink)
            /\ UNCHANGED lbret
    /\ UNCHANGED <<n, adj, arcs, cur, ret, snap, calls, NUM_ITER, k_th,
                   sum_lb, lbarcs, lb_s, lb_t>>

\* f1 is set; f2 = algo.MaximumFlow(s, SuperSink) starts
LB_AfterF1 ==
    /\ pc = "ret"
    /\ Len(fs) = 0
    /\ fs' = Append(fs, flow)
    /\ LB_Enter(lb_s, SuperSink)
    /\ UNCHANGED <<n, adj, arcs, cur, ret, snap, calls, NUM_ITER, k_th,
                   sum_lb, lbarcs, lb_s, lb_t, lbret>>

\* LB_AfterF2 going on with algo.MaximumFlow(s, t) instead of (SuperSource, t)
LB_AfterF2EnterST ==
    /\ pc = "ret"
    /\ Len(fs) = 1
    /\ fs' = Append(fs, flow)
    /\ IF fs[1] + flow # sum_lb
       THEN /\ lbret' = -1
            /\ pc' = "done"
            /\ UNCHANGED <<s, t, flow, searches, level, iter>>
       ELSE /\ LB_Enter(lb_s, lb_t)
            /\ UNCHANGED lbret
    /\ UNCHANGED <<n, adj, arcs, cur, ret, snap, calls, NUM_ITER, k_th,
                   sum_lb, lbarcs, lb_s, lb_t>>

\* f2 is set; if (f1 + f2 != sum_lb) return -1; f3 = algo.MaximumFlow(SuperSource, t) starts
LB_AfterF2 ==
    /\ pc = "ret"
    /\ Len(fs) = 1
    /\ fs' = Append(fs, flow)
    /\ IF fs[1] + flow # sum_lb
       THEN /\ lbret' = -1
            /\ pc' = "done"
            /\ UNCHANGED <<s, t, flow, searches, level, iter>>
       ELSE /\ LB_Enter(SuperSource, lb_t)
            /\ UNCHANGED lbret
    /\ UNCHANGED <<n, adj, arcs, cur, ret, snap, calls, NUM_ITER, k_th,
                   sum_lb, lbarcs, lb_s, lb_t>>

\* LB_AfterF3 without the test of f1 + f3
LB_AfterF3NoTest ==
    /\ pc = "ret"
    /\ Len(fs) = 2
    /\ fs' = Append(fs, flow)
    /\ LB_Enter(lb_s, lb_t)
    /\ UNCHANGED <<n, adj, arcs, cur, ret, snap, calls, NUM_ITER, k_th,
                   sum_lb, lbarcs, lb_s, lb_t, lbret>>

\* f3 is set; if (f1 + f3 != sum_lb) return -1; f4 = algo.MaximumFlow(s, t) starts
LB_AfterF3 ==
    /\ pc = "ret"
    /\ Len(fs) = 2
    /\ fs' = Append(fs, flow)
    /\ IF fs[1] + flow # sum_lb
       THEN /\ lbret' = -1
            /\ pc' = "done"
            /\ UNCHANGED <<s, t, flow, searches, level, iter>>
       ELSE /\ LB_Enter(lb_s, lb_t)
            /\ UNCHANGED lbret
    /\ UNCHANGED <<n, adj, arcs, cur, ret, snap, calls, NUM_ITER, k_th,
                   sum_lb, lbarcs, lb_s, lb_t>>

\* f4 is set; return f2 + f4
LB_AfterF4 ==
    /\ pc = "ret"
    /\ Len(fs) = 3
    /\ fs' = Append(fs, flow)
    /\ lbret' = fs[2] + flow
    /\ pc' = "done"
    /\ UNCHANGED <<n, adj, arcs, cur, s, t, flow, ret, snap, calls, searches, level, iter,
                   NUM_ITER, k_th, sum_lb, lbarcs, lb_s, lb_t>>

LowerBounds == (0 - 1)..MaxCap

NextLB ==
    \/ \E u \in Vertices, v \in Vertices, lb \in LowerBounds, ub \in Caps :
          LB_add_arc(u, v, lb, ub)
    \/ LB_MaximumFlow(Source, Sink)
    \/ Dinic_Phase
    \/ Dinic_Augment
    \/ LB_AfterF1
    \/ LB_AfterF2
    \/ LB_AfterF3
    \/ LB_AfterF4

SpecLB == InitLB /\ [][NextLB]_vars

\* ------------------------------------------------------------------------
\* MaximumFlowWithLowerBound<Algorithm> for Algorithm = FordFulkerson<int>,
\* EdmondsKarp<int> and Dinic<int>: one reduction per base solver, built by
\* the same add_arc calls; MaximumFlow(s, t) is called on each in turn and
\* its result appended to ret[Algorithm].
\* ------------------------------------------------------------------------
\* the classes with a signed Weight: the first three of Algs
BaseSolvers == Len(Algs) - 1

InitLBAll ==
    /\ n = NumV + 2
    /\ adj = [alg \in AlgSet |-> EmptyAdj(NumV + 2)]
    /\ arcs = <<>>
    /\ pc = "build"
    /\ cur = 1
    /\ s = 0
    /\ t = 0
    /\ flow = 0
    /\ ret = [alg \in AlgSet |-> <<>>]
    /\ snap = [alg \in AlgSet |-> EmptyAdj(NumV + 2)]
    /\ calls = 1
    /\ searches = 0
    /\ level = NoVector
    /\ iter = NoVector
    /\ NUM_ITER = 0
    /\ k_th = 0
    /\ sum_lb = 0
    /\ lbarcs = <<>>
    /\ lb_s = 0
    /\ lb_t = 0
    /\ fs = <<>>
    /\ lbret = 0

\* algo.add_arc of the wrapped class
Algo_add_arc(alg, a, src, dst, cap) ==
    CASE alg = "FF" -> FF_add_arc(a, src, dst, cap)
      [] alg = "EK" -> EK_add_arc(a, src, dst, cap)
      [] alg = "Dinic" -> Dinic_add_arc(a, src, dst, cap)
      [] OTHER -> a

\* the three algo.add_arc calls of MaximumFlowWithLowerBound::add_arc
LBAll_algo_add_arcs(alg, a, src, dst, lb, ub) ==
    Algo_add_arc(alg,
        Algo_add_arc(alg, Algo_add_arc(alg, a, src, dst, ub - lb), SuperSource, dst, lb),
        src, SuperSink, lb)

\* MaximumFlowWithLowerBound::add_arc with 0 <= lb <= ub, on each reduction
LBAll_add_arc(src, dst, lb, ub) ==
    /\ pc = "build"
    /\ Len(lbarcs) < MaxLBArcs
    /\ 0 <= lb /\ lb <= ub
    /\ IF src = dst \/ ub = 0
       THEN UNCHANGED <<adj, sum_lb, lbarcs>>
       ELSE /\ adj' = [alg \in AlgSet |->
                          LBAll_algo_add_arcs(alg, adj[alg], src, dst, lb, ub)]
            /\ sum_lb' = sum_lb + lb
            /\ lbarcs' = Append(lbarcs, [src |-> src, dst |-> dst, lb |-> lb, ub |-> ub])
    /\ UNCHANGED <<n, arcs, pc, cur, s, t, flow, ret, snap, calls, searches, level, iter,
                   NUM_ITER, k_th, lb_s, lb_t, fs, lbret>>

\* algo.MaximumFlow(ss, tt) of the class alg is entered
LBAll_Enter(alg, ss, tt) ==
    /\ pc' = EntryPc(alg)
    /\ s' = ss
    /\ t' = tt
    /\ flow' = 0
    /\ searches' = 0
    /\ level' = NoVector
    /\ iter' = NoVector

\* MaximumFlow(s, t) of the current reduction returns result; the driver
\* calls MaximumFlow(s, t) of the next reduction, if any
LBAll_Return(result) ==
    /\ lbret' = result
    /\ ret' = [ret EXCEPT ![Algs[cur]] = Append(@, result)]
    /\ IF cur < BaseSolvers
       THEN /\ cur' = cur + 1
            /\ fs' = <<>>
            /\ LBAll_Enter(Algs[cur + 1], SuperSource, SuperSink)
       ELSE /\ pc' = "done"
            /\ fs' = Append(fs, flow)
            /\ UNCHANGED <<cur, s, t, flow, searches, level, iter>>

\* MaximumFlow(s, t) is called on the first reduction: f1 starts
LBAll_MaximumFlow(ss, tt) ==
    /\ pc = "build"
    /\ ss # tt
    /\ lb_s' = ss
    /\ lb_t' = tt
    /\ fs' = <<>>
    /\ LBAll_Enter(Algs[cur], SuperSource, SuperSink)
    /\ UNCHANGED <<n, adj, arcs, cur, ret, snap, calls, NUM_ITER, k_th, sum_lb, lbarcs, lbret>>

\* f1 is set; f2 = algo.MaximumFlow(s, SuperSink) starts
LBAll_AfterF1 ==
    /\ pc = "ret"
    /\ Len(fs) = 0
    /\ fs' = Append(fs, flow)
    /\ LBAll_Enter(Algs[cur], lb_s, SuperSink)
    /\ UNCHANGED <<n, adj, arcs, cur, ret, snap, calls, NUM_ITER, k_th,
                   sum_lb, lbarcs, lb_s, lb_t, lbret>>

\* f2 is set; if (f1 + f2 != sum_lb) return -1; f3 starts
LBAll_AfterF2 ==
    /\ pc = "ret"
    /\ Len(fs) = 1
    /\ IF fs[1] + flow # sum_lb
       THEN LBAll_Return(-1)
       ELSE /\ fs' = Append(fs, flow)
            /\ LBAll_Enter(Algs[cur], SuperSource, lb_t)
            /\ UNCHANGED <<cur, ret, lbret>>
    /\ UNCHANGED <<n, adj, arcs, snap, calls, NUM_ITER, k_th, sum_lb, lbarcs, lb_s, lb_t>>

\* f3 is set; if (f1 + f3 != sum_lb) return -1; f4 starts
LBAll_AfterF3 ==
    /\ pc = "ret"
    /\ Len(fs) = 2
    /\ IF fs[1] + flow # sum_lb
       THEN LBAll_Return(-1)
       ELSE /\ fs' = Append(fs, flow)
            /\ LBAll_Enter(Algs[cur], lb_s, lb_t)
            /\ UNCHANGED <<cur, ret, lbret>>
    /\ UNCHANGED <<n, adj, arcs, snap, calls, NUM_ITER, k_th, sum_lb, lbarcs, lb_s, lb_t>>

\* f4 is set; return f2 + f4
LBAll_AfterF4 ==
    /\ pc = "ret"
    /\ Len(fs) = 3
    /\ LBAll_Return(fs[2] + flow)
    /\ UNCHANGED <<n, adj, arcs, snap, calls, NUM_ITER, k_th, sum_lb, lbarcs, lb_s, lb_t>>

NextLBAll ==
    \/ \E u \in Vertices, v \in Vertices, lb \in Caps, ub \in Caps :
          LBAll_add_arc(u, v, lb, ub)
    \/ LBAll_MaximumFlow(Source, Sink)
    \/ FF_Search
    \/ EK_Search
    \/ Dinic_Phase
    \/ Dinic_Augment
    \/ LBAll_AfterF1
    \/ LBAll_AfterF2
    \/ LBAll_AfterF3
    \/ LBAll_AfterF4

SpecLBAll == InitLBAll /\ [][NextLBAll]_vars

\* ------------------------------------------------------------------------
\* CapacityScalingAlgorithm alone: a network built by add_arc calls with any
\* endpoints (src = dst included) and capacities of up to three bits, then
\* one MaximumFlow(s, t) call.
\* ------------------------------------------------------------------------
CSCaps == {0, 1, 3, 5}

InitCS ==
    /\ n = NumV
    /\ adj = [alg \in AlgSet |-> EmptyAdj(NumV)]
    /\ arcs = <<>>
    /\ pc = "build"
    /\ cur = Len(Algs)
    /\ s = 0
    /\ t = 0
    /\ flow = 0
    /\ ret = [alg \in AlgSet |-> <<>>]
    /\ snap = [alg \in AlgSet |-> EmptyAdj(NumV)]
    /\ calls = 1
    /\ searches = 0
    /\ level = NoVector
    /\ iter = NoVector
    /\ NUM_ITER = 0
    /\ k_th = 0
    /\ sum_lb = 0
    /\ lbarcs = <<>>
    /\ lb_s = 0
    /\ lb_t = 0
    /\ fs = <<>>
    /\ lbret = 0

\* MaximumFlow(ss, tt) is called on the CapacityScalingAlgorithm instance
CS_Call(ss, tt) ==
    /\ pc = "build"
    /\ Algs[cur] = "CS"
    /\ ss # tt
    /\ pc' = EntryPc("CS")
    /\ s' = ss
    /\ t' = tt
    /\ flow' = 0
    /\ searches' = 0
    /\ snap' = adj
    /\ UNCHANGED <<n, adj, arcs, cur, ret, calls, level, iter, NUM_ITER, k_th, lbvars>>

\* return flow
CS_Return ==
    /\ pc = "ret"
    /\ Algs[cur] = "CS"
    /\ ret' = [ret EXCEPT !["CS"] = Append(@, flow)]
    /\ snap' = [snap EXCEPT !["CS"] = adj["CS"]]
    /\ pc' = "done"
    /\ UNCHANGED <<n, adj, arcs, cur, s, t, flow, calls, searches, level, iter,
                   NUM_ITER, k_th, lbvars>>

NextCS ==
    \/ \E u \in Vertices : \E v \in Vertices : \E c \in CSCaps : AddArc(u, v, c)
    \/ CS_Call(Source, Sink)
    \/ CS_Start
    \/ CS_Iterate
    \/ CS_Search
    \/ CS_Return

SpecCS == InitCS /\ [][NextCS]_vars

\* ------------------------------------------------------------------------
\* CapacityScalingAlgorithm with one step per iteration of the for loop of
\* MaximumFlow, and MaxFlowCalls calls made on the instance.
\* ------------------------------------------------------------------------
\* the while loop of one iteration: Dfs until it returns no flow
RECURSIVE CS_WhileLoop(_, _, _, _)
CS_WhileLoop(a, ss, tt, fl) ==
    LET r == CS_Dfs(a, ss, UINF, tt, {}) IN
    IF r.d <= 0 THEN [flow |-> fl, adj |-> r.adj]
    ELSE CS_WhileLoop(r.adj, ss, tt, (fl + r.d) % UMod)

\* one iteration of the for loop: DoubleFlowAndMakeAuxiliaryNetwork(k_th),
\* flow *= 2 and the while loop; or the exit of the for loop
CS_Iteration ==
    /\ pc = "cs_iter"
    /\ Algs[cur] = "CS"
    /\ IF k_th <= NUM_ITER
       THEN LET a1 == CS_DoubleFlowAndMakeAuxiliaryNetwork(adj["CS"], NUM_ITER, k_th)
                r == CS_WhileLoop(a1, s, t, (flow * 2) % UMod)
            IN  /\ adj' = [adj EXCEPT !["CS"] = r.adj]
                /\ flow' = r.flow
                /\ k_th' = k_th + 1
                /\ pc' = "cs_iter"
       ELSE /\ pc' = "ret"
            /\ UNCHANGED <<adj, flow, k_th>>
    /\ UNCHANGED <<n, arcs, cur, s, t, ret, snap, calls, searches, level, iter,
                   NUM_ITER, lbvars>>

\* return flow; the driver makes the next call on the same instance
CS_ReturnAndRepeat ==
    /\ pc = "ret"
    /\ Algs[cur] = "CS"
    /\ ret' = [ret EXCEPT !["CS"] = Append(@, flow)]
    /\ snap' = [snap EXCEPT !["CS"] = adj["CS"]]
    /\ IF calls < MaxFlowCalls
       THEN /\ pc' = EntryPc("CS")
            /\ calls' = calls + 1
       ELSE /\ pc' = "done"
            /\ calls' = calls
    /\ UNCHANGED <<n, adj, arcs, cur, s, t, flow, searches, level, iter,
                   NUM_ITER, k_th, lbvars>>

NextCSIter ==
    \/ \E u \in Vertices : \E v \in Vertices : \E c \in CSCaps : AddArc(u, v, c)
    \/ CS_Call(Source, Sink)
    \/ CS_Start
    \/ CS_Iteration
    \/ CS_ReturnAndRepeat

SpecCSIter == InitCS /\ [][NextCSIter]_vars

\* ------------------------------------------------------------------------
\* EdmondsKarp alone on a larger network: one more vertex and one more
\* add_arc call than the four-class driver, positive capacities, then one
\* MaximumFlow(0, n - 1) call.
\* ------------------------------------------------------------------------
EKNumV == NumV + 1
EKVertices == 0..(EKNumV - 1)
MaxEKArcs == MaxArcCalls + 1

InitEK ==
    /\ n = EKNumV
    /\ adj = [alg \in AlgSet |-> EmptyAdj(EKNumV)]
    /\ arcs = <<>>
    /\ pc = "build"
    /\ cur = 2
    /\ s = 0
    /\ t = 0
    /\ flow = 0
    /\ ret = [alg \in AlgSet |-> <<>>]
    /\ snap = [alg \in AlgSet |-> EmptyAdj(EKNumV)]
    /\ calls = 1
    /\ searches = 0
    /\ level = NoVector
    /\ iter = NoVector
    /\ NUM_ITER = 0
    /\ k_th = 0
    /\ sum_lb = 0
    /\ lbarcs = <<>>
    /\ lb_s = 0
    /\ lb_t = 0
    /\ fs = <<>>
    /\ lbret = 0

\* add_arc(u, v, c) on the EdmondsKarp instance
EK_AddArc(u, v, c) ==
    /\ pc = "build"
    /\ Len(arcs) < MaxEKArcs
    /\ adj' = [adj EXCEPT !["EK"] = EK_add_arc(@, u, v, c)]
    /\ arcs' = Append(arcs, ArcRec(adj["EK"], u, v, c))
    /\ UNCHANGED <<n, pc, cur, s, t, flow, ret, snap, calls, searches, level, iter,
                   NUM_ITER, k_th, lbvars>>

\* MaximumFlow(ss, tt) is called on the EdmondsKarp instance
EK_Call(ss, tt) ==
    /\ pc = "build"
    /\ Algs[cur] = "EK"
    /\ ss # tt
    /\ pc' = EntryPc("EK")
    /\ s' = ss
    /\ t' = tt
    /\ flow' = 0
    /\ searches' = 0
    /\ snap' = adj
    /\ UNCHANGED <<n, adj, arcs, cur, ret, calls, level, iter, NUM_ITER, k_th, lbvars>>

\* return flow
EK_Return ==
    /\ pc = "ret"
    /\ Algs[cur] = "EK"
    /\ ret' = [ret EXCEPT !["EK"] = Append(@, flow)]
    /\ snap' = [snap EXCEPT !["EK"] = adj["EK"]]
    /\ pc' = "done"
    /\ UNCHANGED <<n, adj, arcs, cur, s, t, flow, calls, searches, level, iter,
                   NUM_ITER, k_th, lbvars>>

NextEK ==
    \/ \E u \in EKVertices : \E v \in EKVertices \ {u} : \E c \in 1..MaxCap :
          EK_AddArc(u, v, c)
    \/ EK_Call(0, EKNumV - 1)
    \/ EK_Search
    \/ EK_Return

SpecEK == InitEK /\ [][NextEK]_vars

\* ------------------------------------------------------------------------
\* Dinic alone on a larger network: one more vertex and two more add_arc
\* calls than the four-class driver, then one MaximumFlow(0, n - 1) call.
\* The arcs have positive capacity and go from a lower-numbered to a
\* higher-numbered vertex.
\* ------------------------------------------------------------------------
DinicNumV == NumV + 1
DinicVertices == 0..(DinicNumV - 1)
MaxDinicArcs == MaxArcCalls + 2

InitDinic ==
    /\ n = DinicNumV
    /\ adj = [alg \in AlgSet |-> EmptyAdj(DinicNumV)]
    /\ arcs = <<>>
    /\ pc = "build"
    /\ cur = 3
    /\ s = 0
    /\ t = 0
    /\ flow = 0
    /\ ret = [alg \in AlgSet |-> <<>>]
    /\ snap = [alg \in AlgSet |-> EmptyAdj(DinicNumV)]
    /\ calls = 1
    /\ searches = 0
    /\ level = NoVector
    /\ iter = NoVector
    /\ NUM_ITER = 0
    /\ k_th = 0
    /\ sum_lb = 0
    /\ lbarcs = <<>>
    /\ lb_s = 0
    /\ lb_t = 0
    /\ fs = <<>>
    /\ lbret = 0

\* add_arc(u, v, c) on the Dinic instance
Dinic_AddArc(u, v, c) ==
    /\ pc = "build"
    /\ Len(arcs) < MaxDinicArcs
    /\ adj' = [adj EXCEPT !["Dinic"] = Dinic_add_arc(@, u, v, c)]
    /\ arcs' = Append(arcs, ArcRec(adj["Dinic"], u, v, c))
    /\ UNCHANGED <<n, pc, cur, s, t, flow, ret, snap, calls, searches, level, iter,
                   NUM_ITER, k_th, lbvars>>

\* MaximumFlow(ss, tt) is called on the Dinic instance
Dinic_Call(ss, tt) ==
    /\ pc = "build"
    /\ Algs[cur] = "Dinic"
    /\ ss # tt
    /\ pc' = EntryPc("Dinic")
    /\ s' = ss
    /\ t' = tt
    /\ flow' = 0
    /\ searches' = 0
    /\ snap' = adj
    /\ level' = NoVector
    /\ iter' = NoVector
    /\ UNCHANGED <<n, adj, arcs, cur, ret, calls, NUM_ITER, k_th, lbvars>>

\* return flow; the locals level and iter are kept as the last phase left them
Dinic_Return ==
    /\ pc = "ret"
    /\ Algs[cur] = "Dinic"
    /\ ret' = [ret EXCEPT !["Dinic"] = Append(@, flow)]
    /\ snap' = [snap EXCEPT !["Dinic"] = adj["Dinic"]]
    /\ pc' = "done"
    /\ UNCHANGED <<n, adj, arcs, cur, s, t, flow, calls, searches, level, iter,
                   NUM_ITER, k_th, lbvars>>

NextDinic ==
    \/ \E u \in DinicVertices : \E v \in {w \in DinicVertices : u < w} :
          \E c \in 1..MaxCap : Dinic_AddArc(u, v, c)
    \/ Dinic_Call(0, DinicNumV - 1)
    \/ Dinic_Phase
    \/ Dinic_Augment
    \/ Dinic_Return

SpecDinic == InitDinic /\ [][NextDinic]_vars

\* ------------------------------------------------------------------------
\* Definitions used to state the properties
\* ------------------------------------------------------------------------
Running == pc \notin {"build", "done"}
Alg == Algs[cur]

\* residual capacity of a stored arc of class alg
Residual(alg, e) ==
    CASE alg = "Dinic" -> e.weight
      [] alg = "CS" -> e.cap_aux
      [] OTHER -> e.cap

\* vertices reachable from the set R over arcs of positive residual capacity
RECURSIVE ResidualReach(_, _, _)
ResidualReach(alg, a, R) ==
    LET step == R \cup UNION {{a[v][i].dst :
                                 i \in {j \in 1..Len(a[v]) : Residual(alg, a[v][j]) > 0}} :
                              v \in R}
    IN  IF step = R THEN R ELSE ResidualReach(alg, a, step)

RECURSIVE SumTo(_, _)
SumTo(f, k) == IF k = 0 THEN 0 ELSE f[k] + SumTo(f, k - 1)

\* total original capacity of the arcs leaving the vertex set R
CutCapacity(R) ==
    SumTo([i \in 1..Len(arcs) |->
              IF arcs[i].src \in R /\ arcs[i].dst \notin R THEN arcs[i].cap ELSE 0],
          Len(arcs))

\* flow on the i-th arc added: original capacity minus residual capacity; for
\* CapacityScalingAlgorithm the auxiliary capacity of its reverse arc
ArcFlow(alg, a, i) ==
    IF alg = "CS"
    THEN a[arcs[i].dst][arcs[i].rpos].cap_aux
    ELSE arcs[i].cap - Residual(alg, a[arcs[i].src][arcs[i].pos])

InFlow(alg, a, v) ==
    SumTo([i \in 1..Len(arcs) |-> IF arcs[i].dst = v THEN ArcFlow(alg, a, i) ELSE 0],
          Len(arcs))

OutFlow(alg, a, v) ==
    SumTo([i \in 1..Len(arcs) |-> IF arcs[i].src = v THEN ArcFlow(alg, a, i) ELSE 0],
          Len(arcs))

Conserved(alg, a) ==
    \A v \in DOMAIN a : v \notin {s, t} => InFlow(alg, a, v) = OutFlow(alg, a, v)

\* the arc adj[e.dst][e.rev] paired with the stored arc e, when it exists
HasPair(a, e) == e.rev + 1 \in 1..Len(a[e.dst])
Pair(a, e) == a[e.dst][e.rev + 1]

SignedAlgs == {"FF", "EK", "Dinic"}

\* every instance has returned from its first MaximumFlow call
AllReturned == \A alg \in AlgSet : Len(ret[alg]) >= 1

\* ------------------------------------------------------------------------
\* Properties
\* ------------------------------------------------------------------------

\* C1: when the first MaximumFlow(s, t) call of a class is about to return
\* (s # t), t is not reachable from s over arcs of positive residual
\* capacity, and the value returned is the total original capacity of the
\* arcs leaving the set of vertices residual-reachable from s.
C1_ReturnsMinCut ==
    (pc = "ret" /\ calls = 1 /\ s # t) =>
        LET R == ResidualReach(Alg, adj[Alg], {s})
        IN  t \notin R /\ flow = CutCapacity(R)

\* C2: for the same sequence of add_arc/add_edge calls and the same s # t,
\* the four classes return the same value from MaximumFlow(s, t).
C2_StrategiesAgree ==
    (AllReturned /\ s # t) =>
        \A a1 \in AlgSet, a2 \in AlgSet : ret[a1][1] = ret[a2][1]

\* C3: after every augmentation and at return, for every vertex other than
\* s and t the flow into it equals the flow out of it, for all four classes.
C3_FlowConserved ==
    (Running /\ s # t) => \A alg \in AlgSet : Conserved(alg, adj[alg])

\* C4: in FordFulkerson, EdmondsKarp and Dinic, for every arc inserted by
\* add_arc with capacity c, the residual capacity of the arc plus that of its
\* paired reverse arc adj[e.dst][e.rev] is c, in every reachable state.
C4_PairSum ==
    \A alg \in SignedAlgs : \A i \in 1..Len(arcs) :
        LET e == adj[alg][arcs[i].src][arcs[i].pos]
        IN  /\ HasPair(adj[alg], e)
            /\ Residual(alg, e) + Residual(alg, Pair(adj[alg], e)) = arcs[i].cap

\* C5: for every stored arc e, adj[e.dst][e.rev] exists, goes from e.dst to
\* e.src, is a different arc from e, and its rev index points back to e.
C5_PairInvolution ==
    \A alg \in AlgSet : \A v \in DOMAIN adj[alg] : \A i \in 1..Len(adj[alg][v]) :
        LET e == adj[alg][v][i]
        IN  /\ HasPair(adj[alg], e)
            /\ Pair(adj[alg], e).src = e.dst
            /\ Pair(adj[alg], e).dst = e.src
            /\ ~(e.dst = v /\ e.rev + 1 = i)
            /\ Pair(adj[alg], e).rev + 1 = i

\* number of stored arcs of an instance
StoredArcs(a) == SumTo([k \in 1..Cardinality(DOMAIN a) |-> Len(a[k - 1])], Cardinality(DOMAIN a))

\* C6: an add_arc / add_edge call with a negative capacity appends nothing:
\* the network holds the forward and reverse arcs of the calls with
\* capacity >= 0 only.
C6_NegativeCapacityRejected ==
    pc = "build" =>
        \A alg \in AlgSet :
            StoredArcs(adj[alg]) = 2 * Cardinality({i \in 1..Len(arcs) : arcs[i].cap >= 0})

\* C7: for FordFulkerson, EdmondsKarp and Dinic (s # t), once MaximumFlow has
\* returned, a further call accumulates no flow, returns 0 and leaves the
\* residual capacity of every arc as the previous call left it.
C7_RepeatedCallIdle ==
    s # t =>
        \A alg \in SignedAlgs :
            /\ (Running /\ Alg = alg /\ calls >= 2) => (flow = 0 /\ adj[alg] = snap[alg])
            /\ \A k \in 2..Len(ret[alg]) : ret[alg][k] = 0

\* C7 witness: the second calls on FordFulkerson and EdmondsKarp have
\* returned and the second call on Dinic is about to return, on a network
\* where the first calls pushed flow.
C7_Witness ==
    /\ pc = "ret" /\ calls = 2 /\ Alg = "Dinic" /\ s # t
    /\ Len(ret["FF"]) = 2 /\ ret["FF"][1] > 0
    /\ Len(ret["EK"]) = 2 /\ ret["EK"][1] > 0
    /\ ret["Dinic"][1] > 0

\* C8: for CapacityScalingAlgorithm (s # t), a second MaximumFlow call
\* accumulates no flow, returns 0 and leaves every cap_aux as it was after
\* the first call.
C8_ScalingRepeatedCallIdle ==
    (Running /\ Alg = "CS" /\ calls >= 2 /\ s # t) =>
        /\ flow = 0
        /\ pc = "ret" => adj["CS"] = snap["CS"]

\* C9: a call MaximumFlow(s, t) with s = t is treated as flow 0: no search
\* of the call adds INF to the flow.
C9_SameVertexFlowZero ==
    (Running /\ s = t) => flow = 0

\* ------------------------------------------------------------------------
\* Reference for the bounded network: every assignment f of a flow to the
\* arcs recorded in lbarcs (an arc skipped by add_arc is a loop or has ub = 0
\* and changes neither feasibility nor the value).
\* ------------------------------------------------------------------------
LBAssignments == [1..Len(lbarcs) -> Caps]

LBIn(f, v) == SumTo([i \in 1..Len(lbarcs) |-> IF lbarcs[i].dst = v THEN f[i] ELSE 0], Len(lbarcs))

LBOut(f, v) == SumTo([i \in 1..Len(lbarcs) |-> IF lbarcs[i].src = v THEN f[i] ELSE 0], Len(lbarcs))

LBFeasible ==
    { f \in LBAssignments :
        /\ \A i \in 1..Len(lbarcs) : lbarcs[i].lb <= f[i] /\ f[i] <= lbarcs[i].ub
        /\ \A v \in Vertices \ {lb_s, lb_t} : LBIn(f, v) = LBOut(f, v) }

LBValue(f) == LBOut(f, lb_s) - LBIn(f, lb_s)

LBMaxValue == CHOOSE x \in {LBValue(f) : f \in LBFeasible} :
                  \A f \in LBFeasible : LBValue(f) <= x

\* C10: when MaximumFlowWithLowerBound<Dinic>::MaximumFlow(s, t) has returned,
\* its result is the maximum value of a flow within the bounds that is
\* conserved at every vertex other than s and t if such a flow exists, and
\* -1 exactly when none exists.
C10_LowerBoundMaximum ==
    pc = "done" =>
        IF LBFeasible = {} THEN lbret = -1
        ELSE lbret = LBMaxValue

\* C11 as stated: once f1 is known and differs from sum_lb, MaximumFlow has
\* reported -1 and has run no further sub-computation.
C11_StopsAfterF1 ==
    (Len(fs) >= 1 /\ fs[1] # sum_lb) => (pc = "done" /\ lbret = -1 /\ Len(fs) = 1)

\* C11 amended: MaximumFlow always runs the second sub-computation f2; it
\* reports -1 without running f3 and f4 exactly when f1 + f2 # sum_lb, and
\* reports -1 without running f4 exactly when f1 + f3 # sum_lb; otherwise it
\* returns f2 + f4.
C11_StopsOnSums ==
    /\ pc = "done" => Len(fs) \in 2..4
    /\ Len(fs) >= 3 => fs[1] + fs[2] = sum_lb
    /\ Len(fs) = 4 => fs[1] + fs[3] = sum_lb
    /\ (pc = "done" /\ Len(fs) = 2) => (lbret = -1 /\ fs[1] + fs[2] # sum_lb)
    /\ (pc = "done" /\ Len(fs) = 3) => (lbret = -1 /\ fs[1] + fs[3] # sum_lb)
    /\ (pc = "done" /\ Len(fs) = 4) => lbret = fs[2] + fs[4]

\* C11 witness: f1 differed from sum_lb and the call still ran all four
\* sub-computations and returned a flow value.
C11_Witness ==
    pc = "done" /\ Len(fs) = 4 /\ fs[1] # sum_lb /\ lbret >= 1


\* C12: a call on a feasible network never returns -1; when every lower
\* bound is 0 the call does not return -1 and returns the maximum flow of the
\* network of the upper bounds.
C12_InfeasibleDistinct ==
    pc = "done" =>
        /\ LBFeasible # {} => lbret # -1
        /\ (\A i \in 1..Len(lbarcs) : lbarcs[i].lb = 0) =>
               (lbret # -1 /\ lbret = LBMaxValue)

\* C13: no input makes the library abort: the process is never terminated
\* by an add_arc call (one with lb < 0 or lb > ub included).
C13_NeverAborts == pc # "abort"

\* the results of MaximumFlow(s, t) of the three reductions
LBResult(alg) == ret[alg][1]

\* C14: once the reductions over FordFulkerson, EdmondsKarp and Dinic have
\* returned from MaximumFlow(s, t) on the same bounded network, their
\* results (a flow value or -1) are equal.
C14_BaseSolversAgree ==
    (\A alg \in SignedAlgs : Len(ret[alg]) >= 1) =>
        \A a1 \in SignedAlgs, a2 \in SignedAlgs : LBResult(a1) = LBResult(a2)

\* C15: in CapacityScalingAlgorithm, during iteration k of the first
\* MaximumFlow call, from the end of DoubleFlowAndMakeAuxiliaryNetwork(k)
\* until the iteration ends, every original arc a has
\* cap_aux(a) + cap_aux(adj[a.dst][a.rev]) = cap(a) >> (NUM_ITER - k).
C15_AuxiliaryPairSum ==
    (pc = "cs_dfs" /\ Alg = "CS" /\ calls = 1) =>
        \A i \in 1..Len(arcs) :
            LET e == adj["CS"][arcs[i].src][arcs[i].pos]
            IN  /\ HasPair(adj["CS"], e)
                /\ e.cap_aux + Pair(adj["CS"], e).cap_aux
                       = ShiftRight(arcs[i].cap, NUM_ITER - k_th)

\* the restricted capacity of the i-th arc added, as the auxiliary network
\* holds it: cap_aux of its reverse arc (the flow) plus cap_aux of the arc
\* that reverse arc is paired with (the residual capacity)
RestrictedCapacity(i) ==
    LET r == adj["CS"][arcs[i].dst][arcs[i].rpos]
    IN  r.cap_aux + Pair(adj["CS"], r).cap_aux

\* the network has three arcs, of capacities 1, 3 and 5
Caps135 == Len(arcs) = 3 /\ {arcs[i].cap : i \in 1..Len(arcs)} = {1, 3, 5}

\* restricted capacities of the worked example as documented, per iteration
\* and capacity
Expected135 ==
    << (1 :> 0 @@ 3 :> 0 @@ 5 :> 1),
       (1 :> 0 @@ 3 :> 1 @@ 5 :> 3),
       (1 :> 1 @@ 3 :> 3 @@ 5 :> 5) >>

Floor135 ==
    << (1 :> 0 @@ 3 :> 0 @@ 5 :> 1),
       (1 :> 0 @@ 3 :> 1 @@ 5 :> 2),
       (1 :> 1 @@ 3 :> 3 @@ 5 :> 5) >>

C17_ZeroCapacityShortCircuit ==
    (Alg = "CS" /\ calls = 1 /\ pc \in {"cs_iter", "cs_dfs", "ret"}
        /\ CS_MaxCap(adj["CS"]) = 0) =>
        (NUM_ITER = 0 /\ pc # "cs_dfs" /\ flow = 0)

\* positions <<v, i>> of the stored arcs of an instance
ArcPositions(a) == UNION {{<<v, i>> : i \in 1..Len(a[v])} : v \in DOMAIN a}

\* the arcs of EdmondsKarp whose capacity a step decreases
EK_Decreased ==
    {p \in ArcPositions(adj["EK"]) :
        adj'["EK"][p[1]][p[2]].cap < adj["EK"][p[1]][p[2]].cap}

\* what one Bfs call of EdmondsKarp::MaximumFlow(s, t), s # t, does
EK_PhaseOnPath ==
    LET a == adj["EK"]
        f == flow' - flow
    IN  /\ t \in ResidualReach("EK", a, {s}) => f > 0
        /\ \A p \in EK_Decreased :
              /\ a[p[1]][p[2]].cap > 0
              /\ a[p[1]][p[2]].cap - adj'["EK"][p[1]][p[2]].cap = f
        /\ \A p \in EK_Decreased : \A q \in EK_Decreased :
              (p[1] = q[1] /\ a[p[1]][p[2]].dst = a[q[1]][q[2]].dst) => p = q
        /\ f > 0 => \E p \in EK_Decreased : a[p[1]][p[2]].cap = f

\* C18: in every Bfs phase of EdmondsKarp, parallel and antiparallel arcs
\* included, the arcs updated are the arcs of the path found: one arc per
\* path step, each of positive residual capacity, each decreased by the
\* bottleneck, which is the least residual capacity among them (so a phase
\* that finds a path pushes a positive amount).
C18_PhaseUpdatesPath ==
    [][(pc = "search" /\ Alg = "EK" /\ s # t) => EK_PhaseOnPath]_vars

\* number of arcs of the path the walks of Bfs follow: from v back to ss
\* over prev
RECURSIVE EK_WalkLen(_, _, _)
EK_WalkLen(prev, ss, v) == IF v = ss THEN 0 ELSE 1 + EK_WalkLen(prev, ss, prev[v])

\* length of the augmenting path Bfs(ss, tt) finds in a (-1: none)
EK_PathLen(a, ss, tt) ==
    LET prev == EK_Prev(a, ss, tt)
    IN  IF prev[tt] = -1 THEN -1 ELSE EK_WalkLen(prev, ss, tt)

\* least number of arcs of positive residual capacity from the set R to tt,
\* counted from d (-1: tt is not reachable)
RECURSIVE ResidualDist(_, _, _, _, _)
ResidualDist(alg, a, R, tt, d) ==
    IF tt \in R THEN d
    ELSE LET step == R \cup UNION {{a[v][i].dst :
                                     i \in {j \in 1..Len(a[v]) : Residual(alg, a[v][j]) > 0}} :
                                  v \in R}
         IN  IF step = R THEN -1 ELSE ResidualDist(alg, a, step, tt, d + 1)

\* what C19 says of one Bfs call that finds a path
EK_ShortestAndMonotone ==
    LET len == EK_PathLen(adj["EK"], s, t)
        next == EK_PathLen(adj'["EK"], s, t)
    IN  len # -1 =>
            /\ len = ResidualDist("EK", adj["EK"], {s}, t, 0)
            /\ len <= Cardinality(DOMAIN adj["EK"]) - 1
            /\ (pc' = "search" /\ next # -1) => len <= next

\* C19: within one EdmondsKarp::MaximumFlow(s, t) call, each augmenting path
\* found is a shortest s-t path (in arcs) of the current residual network,
\* the next path found is not shorter, and no path has more than
\* |vertices| - 1 arcs.
C19_ShortestPathsNonDecreasing ==
    [][(pc = "search" /\ Alg = "EK" /\ s # t) => EK_ShortestAndMonotone]_vars

\* a network with a two-arc path from s to t in which, after a first
\* augmentation, the path found has three arcs
C19_Witness ==
    /\ pc = "search"
    /\ Alg = "EK"
    /\ flow > 0
    /\ EK_PathLen(adj["EK"], s, t) = 3
    /\ \E i, j \in 1..Len(arcs) :
          /\ arcs[i].src = s
          /\ arcs[i].dst = arcs[j].src
          /\ arcs[j].dst = t

\* C20: in Dinic::MaximumFlow every LevelGraph call after the first one of
\* the call either leaves the sink unreached or gives it a level strictly
\* larger than the phase before; the level of a reached sink lies in
\* 1..|vertices| - 1, so that at most |vertices| - 1 phases reach the sink
\* and the outer loop is left at the |vertices|-th phase at the latest.
Dinic_SinkLevelIncreases ==
    /\ level'[t] # -1 => /\ 1 <= level'[t]
                         /\ level'[t] <= Cardinality(DOMAIN adj["Dinic"]) - 1
    /\ (level # NoVector /\ level'[t] # -1) => level[t] < level'[t]
    /\ level'[t] = -1 => pc' = "ret"

C20_SinkLevelStrictlyIncreases ==
    [][(pc = "level" /\ Alg = "Dinic") => Dinic_SinkLevelIncreases]_vars

\* a call on a network with an arc from s to t (sink level 1 in the first
\* phase) in which, after two augmentations, a later phase finds the sink at
\* level 3
C20_Witness ==
    /\ pc = "augment"
    /\ Alg = "Dinic"
    /\ level[t] = 3
    /\ searches = 2
    /\ \E i \in 1..Len(arcs) : arcs[i].src = s /\ arcs[i].dst = t

\* total original capacity of the arcs leaving s
CapacityLeavingSource ==
    SumTo([i \in 1..Len(arcs) |-> IF arcs[i].src = s THEN arcs[i].cap ELSE 0], Len(arcs))

\* one iteration of the loop of FordFulkerson::MaximumFlow: a successful Dfs
\* adds at least 1 to flow, a failed one leaves the loop with flow and the
\* residual capacities as they were; on a network whose capacities are all 0
\* the first search fails
FF_IterationProgress ==
    /\ pc' = "search" => flow' >= flow + 1
    /\ pc' = "ret" => flow' = flow /\ adj' = adj
    /\ (searches = 0 /\ \A i \in 1..Len(arcs) : arcs[i].cap = 0) =>
          pc' = "ret" /\ flow' = 0

\* C21: for non-negative integer capacities and s # t,
\* FordFulkerson::MaximumFlow(s, t) terminates: every successful Dfs augments
\* by at least 1, the accumulated flow never exceeds the total capacity of
\* the arcs leaving s, every call reaches its return, and a zero-capacity
\* graph returns 0 after a single failed search.
C21_FordFulkersonTerminates ==
    /\ [][(pc = "search" /\ Alg = "FF") => FF_IterationProgress]_vars
    /\ []((Running /\ Alg = "FF") => flow <= CapacityLeavingSource)
    /\ (pc = "search" /\ Alg = "FF") ~> (pc = "ret" /\ Alg = "FF")

\* a call that returns after several augmentations
C21_Witness ==
    /\ pc = "ret"
    /\ Alg = "FF"
    /\ calls = 1
    /\ searches >= 3
    /\ flow = CapacityLeavingSource

\* the arc e of adj[v] belongs to the level graph of the levels lev and has
\* positive residual capacity
InLevelGraph(lev, v, e) ==
    /\ 0 < e.weight
    /\ lev[v] # -1
    /\ lev[e.dst] = lev[v] + 1

\* vertices reachable from the set R over such arcs
RECURSIVE LevelReach(_, _, _)
LevelReach(a, lev, R) ==
    LET step == R \cup UNION {{a[v][i].dst :
                                 i \in {j \in 1..Len(a[v]) : InLevelGraph(lev, v, a[v][j])}} :
                              v \in R}
    IN  IF step = R THEN R ELSE LevelReach(a, lev, step)

\* the inner loop of a phase has just been left: level and iter are those
\* of that phase
PhaseEnded == pc = "level" /\ Alg = "Dinic" /\ level # NoVector

\* C22: when the inner loop of a Dinic phase exits, the level graph of that
\* phase holds no path from s to t all of whose arcs have positive residual
\* capacity.
C22_PhaseFlowBlocking ==
    PhaseEnded => t \notin LevelReach(adj["Dinic"], level, {s})

\* a phase that pushed flow and whose resume pointer passed an arc of the
\* level graph that still has positive residual capacity
C22_Witness ==
    /\ PhaseEnded
    /\ flow > 0
    /\ \E v \in DOMAIN iter : \E i \in 1..iter[v] :
          InLevelGraph(level, v, adj["Dinic"][v][i])

\* the test of AugmentingPath on the arc e of adj[v]
Dinic_Admits(lev, v, e) == 0 < e.weight /\ lev[v] < lev[e.dst]

\* the arcs (vertex, position) whose weight the step decreases
Dinic_Pushed ==
    {p \in ArcPositions(adj["Dinic"]) :
        adj'["Dinic"][p[1]][p[2]].weight < adj["Dinic"][p[1]][p[2]].weight}

\* in a phase, every arc the test admits at a reached vertex leads one level up
Dinic_AdmittedOneLevelUp ==
    \A p \in ArcPositions(adj["Dinic"]) :
        LET e == adj["Dinic"][p[1]][p[2]] IN
        (level[p[1]] # -1 /\ Dinic_Admits(level, p[1], e)) =>
            level[e.dst] = level[p[1]] + 1

\* C23: every arc u -> v along which Dinic::AugmentingPath pushes flow has
\* level(v) = level(u) + 1 with both endpoints reached, and the test
\* level[u] < level[v] on a positive-residual arc never admits an arc that
\* skips a level or leads to an unreached vertex.
C23_PushesOneLevelUp ==
    /\ []((pc = "augment" /\ Alg = "Dinic") => Dinic_AdmittedOneLevelUp)
    /\ [][(pc = "augment" /\ Alg = "Dinic") =>
             \A p \in Dinic_Pushed :
                 LET e == adj["Dinic"][p[1]][p[2]] IN
                 /\ level[p[1]] # -1
                 /\ level[e.dst] # -1
                 /\ level[e.dst] = level[p[1]] + 1]_vars

\* inside a phase that has pushed flow: an admitted arc, and a
\* positive-residual arc leading one level down that the test rejects
C23_Witness ==
    /\ pc = "augment"
    /\ Alg = "Dinic"
    /\ searches >= 1
    /\ \E p \in ArcPositions(adj["Dinic"]) :
          /\ level[p[1]] # -1
          /\ Dinic_Admits(level, p[1], adj["Dinic"][p[1]][p[2]])
    /\ \E p \in ArcPositions(adj["Dinic"]) :
          LET e == adj["Dinic"][p[1]][p[2]] IN
          0 < e.weight /\ level[e.dst] # -1 /\ level[e.dst] < level[p[1]]

\* the arc e of adj[v] can still carry flow to the sink in the level graph
\* of the levels lev
CarriesToSink(a, lev, v, e) ==
    InLevelGraph(lev, v, e) /\ t \in LevelReach(a, lev, {e.dst})

\* every arc iter[v] has been advanced past can carry no further flow
PassedArcsUseless ==
    \A v \in DOMAIN iter : \A i \in 1..iter[v] :
        ~CarriesToSink(adj["Dinic"], level, v, adj["Dinic"][v][i])

\* C24: within one Dinic phase iter[v] never decreases and is only advanced
\* past an arc that can carry no further flow to the sink in the level graph
\* of the phase; iter is reset to 0 for every vertex at the start of each
\* phase and nowhere else.
C24_ResumePointers ==
    /\ [][(pc = "augment" /\ Alg = "Dinic") =>
             \A v \in DOMAIN iter : iter[v] <= iter'[v]]_vars
    /\ [][(pc = "level" /\ Alg = "Dinic" /\ pc' = "augment") =>
             iter' = [v \in DOMAIN adj["Dinic"] |-> 0]]_vars
    /\ []((pc = "augment" /\ Alg = "Dinic") => PassedArcsUseless)
    /\ [](PhaseEnded => PassedArcsUseless)

\* a second phase, after its reset, in which a pointer has been advanced past
\* an arc of the level graph with positive residual capacity
C24_Witness ==
    /\ pc = "augment"
    /\ Alg = "Dinic"
    /\ searches >= 2
    /\ level[t] >= 2
    /\ \E v \in DOMAIN iter : \E i \in 1..iter[v] :
          InLevelGraph(level, v, adj["Dinic"][v][i])
    /\ \E i \in 1..Len(arcs) : arcs[i].src = s /\ arcs[i].dst = t

\* C25: in every iteration k of CapacityScalingAlgorithm::MaximumFlow the
\* flow after the iteration minus twice the flow before it is at most the
\* number of original arcs.
C25_IterationIncreaseBounded ==
    [][(pc = "cs_iter" /\ Alg = "CS" /\ k_th <= NUM_ITER) =>
          flow' - 2 * flow <= Len(arcs)]_vars

\* a base-solver call made by MaximumFlowWithLowerBound::MaximumFlow is running
LB_SolverRunning == pc \in {"level", "augment", "ret"}

\* the arguments of the base-solver calls, in the order of the calls
LB_CallOrder ==
    << <<SuperSource, SuperSink>>, <<lb_s, SuperSink>>,
       <<SuperSource, lb_t>>, <<lb_s, lb_t>> >>

\* C26: MaximumFlowWithLowerBound::MaximumFlow(s, t) invokes the base solver
\* in the order (S', T'), (s, T'), (S', t), (s, t), each call starting from
\* the residual state the previous one left; when a feasibility check fails
\* it returns the infeasible outcome without invoking the base solver again
\* and without changing the network.
C26_SequentialSolverCalls ==
    /\ [](LB_SolverRunning =>
             /\ Len(fs) < Len(LB_CallOrder)
             /\ <<s, t>> = LB_CallOrder[Len(fs) + 1])
    /\ [][pc = "ret" => adj' = adj]_vars
    /\ []((pc = "done" /\ lbret = -1) =>
             /\ Len(fs) \in {2, 3}
             /\ fs[1] + fs[Len(fs)] # sum_lb)
    /\ []((pc = "done" /\ Len(fs) = 3) => fs[1] + fs[2] = sum_lb)
    /\ []((pc = "done" /\ Len(fs) = 4) =>
             /\ fs[1] + fs[2] = sum_lb
             /\ fs[1] + fs[3] = sum_lb
             /\ lbret = fs[2] + fs[4])
    /\ [][pc = "done" => UNCHANGED vars]_vars

\* a call whose first check passed and whose second check failed: three
\* base-solver calls were made, the second of them pushing flow
C26_Witness ==
    /\ pc = "done"
    /\ lbret = -1
    /\ Len(fs) = 3
    /\ fs[2] > 0

\* residual capacities of the forward and of the reverse arc the i-th
\* add_arc call stored in the instance of class alg
ForwardResidual(alg, i) == Residual(alg, adj[alg][arcs[i].src][arcs[i].pos])
ReverseResidual(alg, i) == Residual(alg, adj[alg][arcs[i].dst][arcs[i].rpos])

\* C27: in every reachable state of FordFulkerson, EdmondsKarp and Dinic
\* built from non-negative integer capacities, every arc's residual capacity
\* is >= 0 and at most the original capacity of the forward arc of its pair.
C27_ResidualWithinCapacity ==
    \A alg \in SignedAlgs : \A i \in 1..Len(arcs) :
        /\ 0 <= ForwardResidual(alg, i)
        /\ ForwardResidual(alg, i) <= arcs[i].cap
        /\ 0 <= ReverseResidual(alg, i)
        /\ ReverseResidual(alg, i) <= arcs[i].cap

\* DoubleFlowAndMakeAuxiliaryNetwork(k_th) is about to run in the first call
FirstCallIterationStarts ==
    pc = "cs_iter" /\ Alg = "CS" /\ calls = 1 /\ k_th <= NUM_ITER

\* C28: during the first CapacityScalingAlgorithm::MaximumFlow call on a
\* freshly built instance the subtraction cap_aux - e.cap_aux of
\* DoubleFlowAndMakeAuxiliaryNetwork never wraps: for every original arc and
\* every iteration k, twice the flow recorded on its reverse arc is at most
\* cap >> (K - k), and the shift amount K - k lies in 0..K-1.
C28_DoublingNeverWraps ==
    FirstCallIterationStarts =>
        /\ NUM_ITER - k_th \in 0..(NUM_ITER - 1)
        /\ \A i \in 1..Len(arcs) :
              2 * ReverseResidual("CS", i) <= ShiftRight(arcs[i].cap, NUM_ITER - k_th)

\* an iteration after the first starts with flow recorded on a reverse arc,
\* twice of which is exactly the restricted capacity
C28_Witness ==
    /\ FirstCallIterationStarts
    /\ k_th >= 2
    /\ \E i \in 1..Len(arcs) :
          /\ ReverseResidual("CS", i) > 0
          /\ 2 * ReverseResidual("CS", i) = ShiftRight(arcs[i].cap, NUM_ITER - k_th)

\* every arc leaving the super-source and every arc entering the super-sink
\* has residual capacity 0
SuperArcsSaturated ==
    \A i \in 1..Len(arcs) :
        (arcs[i].src = SuperSource \/ arcs[i].dst = SuperSink) =>
            ForwardResidual("Dinic", i) = 0

\* C29: whenever MaximumFlowWithLowerBound::MaximumFlow(s, t) returns a
\* feasible value, f2 = f3, and every arc leaving the super-source and every
\* arc entering the super-sink has residual capacity 0 at return; the final
\* computation f4 never un-saturates them.
C29_SuperArcsStaySaturated ==
    /\ (pc = "done" /\ Len(fs) = 4) => (fs[2] = fs[3] /\ SuperArcsSaturated)
    /\ (LB_SolverRunning /\ Len(fs) = 3) => SuperArcsSaturated

\* a feasible return with positive lower bounds in which f4 found flow
C29_Witness ==
    /\ pc = "done"
    /\ Len(fs) = 4
    /\ sum_lb > 0
    /\ fs[4] > 0

\* the flow read off the residual state: on the j-th accepted arc, lb plus
\* what the arc added for it (the first of its three) carries
LB_ReadFlow ==
    [j \in 1..Len(lbarcs) |->
        lbarcs[j].lb + (lbarcs[j].ub - lbarcs[j].lb - ForwardResidual("Dinic", 3 * j - 2))]

\* C30: whenever MaximumFlowWithLowerBound::MaximumFlow(s, t) returns a
\* feasible value F, the flow read off the final residual state lies within
\* lb..ub on every accepted arc, is conserved at every original vertex other
\* than s and t, and has net outflow F at s.
C30_ReadFlowFeasible ==
    (pc = "done" /\ Len(fs) = 4) =>
        /\ \A j \in 1..Len(lbarcs) :
              lbarcs[j].lb <= LB_ReadFlow[j] /\ LB_ReadFlow[j] <= lbarcs[j].ub
        /\ \A v \in Vertices \ {lb_s, lb_t} : LBIn(LB_ReadFlow, v) = LBOut(LB_ReadFlow, v)
        /\ LBValue(LB_ReadFlow) = lbret

\* a feasible return on a network with a positive lower bound in which some
\* arc carries more than its lower bound
C30_Witness ==
    /\ pc = "done"
    /\ Len(fs) = 4
    /\ \E j \in 1..Len(lbarcs) : lbarcs[j].lb > 0
    /\ \E j \in 1..Len(lbarcs) : LB_ReadFlow[j] > lbarcs[j].lb
    /\ lbret > 0


====
